---- MODULE Spec2Model ----
(***************************************************************************)
(* Model of src/src/analyzers/parking_calculator.py: the ADA step          *)
(* function, the single-use parking calculation and the mixed-use          *)
(* aggregation.                                                            *)
(*                                                                         *)
(* The Python code computes with IEEE-754 binary64 floats (ratio * units,  *)
(* gross_sf / 1000, total_required * 0.85) and then applies math.ceil.     *)
(* The model keeps that arithmetic: a float is a sign and a mantissa of at *)
(* most 53 bits with a binary scale, every operation rounds to nearest,    *)
(* ties to even.  Mantissas are wider than TLC's integers, so they are     *)
(* kept as little-endian sequences of limbs.                               *)
(***************************************************************************)
EXTENDS Integers, Sequences, FiniteSets, TLC

-----------------------------------------------------------------------------
(* Natural numbers of arbitrary size: little-endian limbs, no leading zero  *)
(* limb, <<>> is zero.                                                      *)

LimbBits == 14

MantissaBits == 53

RECURSIVE Pow2(_)
Pow2(k) == IF k = 0 THEN 1 ELSE 2 * Pow2(k - 1)

Base == Pow2(LimbBits)

RECURSIVE BNorm(_)
BNorm(a) ==
  IF a = <<>> THEN <<>>
  ELSE IF a[Len(a)] = 0 THEN BNorm(SubSeq(a, 1, Len(a) - 1)) ELSE a

RECURSIVE BFromInt(_)
BFromInt(n) == IF n = 0 THEN <<>> ELSE <<n % Base>> \o BFromInt(n \div Base)

RECURSIVE BToInt(_)
BToInt(a) == IF a = <<>> THEN 0 ELSE a[1] + Base * BToInt(Tail(a))

\* a * k + carry, for a small k
RECURSIVE BMulSmall(_, _, _)
BMulSmall(a, k, carry) ==
  IF a = <<>> THEN BFromInt(carry)
  ELSE LET t == a[1] * k + carry
       IN  <<t % Base>> \o BMulSmall(Tail(a), k, t \div Base)

RECURSIVE BAddC(_, _, _)
BAddC(a, b, carry) ==
  IF a = <<>> /\ b = <<>> THEN BFromInt(carry)
  ELSE LET x == IF a = <<>> THEN 0 ELSE a[1]
           y == IF b = <<>> THEN 0 ELSE b[1]
           t == x + y + carry
       IN  <<t % Base>> \o BAddC(IF a = <<>> THEN <<>> ELSE Tail(a),
                                 IF b = <<>> THEN <<>> ELSE Tail(b),
                                 t \div Base)

BAdd(a, b) == BNorm(BAddC(a, b, 0))

RECURSIVE BMul(_, _)
BMul(a, b) ==
  IF a = <<>> \/ b = <<>> THEN <<>>
  ELSE BAdd(BNorm(BMulSmall(b, a[1], 0)),
            LET r == BMul(Tail(a), b) IN IF r = <<>> THEN <<>> ELSE <<0>> \o r)

RECURSIVE IntBitLen(_)
IntBitLen(n) == IF n = 0 THEN 0 ELSE 1 + IntBitLen(n \div 2)

BBitLen(a) ==
  IF a = <<>> THEN 0 ELSE LimbBits * (Len(a) - 1) + IntBitLen(a[Len(a)])

RECURSIVE Zeros(_)
Zeros(n) == IF n = 0 THEN <<>> ELSE <<0>> \o Zeros(n - 1)

\* a * 2^k
BShl(a, k) ==
  IF a = <<>> THEN <<>>
  ELSE Zeros(k \div LimbBits) \o BNorm(BMulSmall(a, Pow2(k % LimbBits), 0))

\* quotient (limbs 1..i) and remainder of a by a small d, from limb i down
RECURSIVE BDivFrom(_, _, _, _)
BDivFrom(a, d, i, rem) ==
  IF i = 0 THEN [q |-> <<>>, r |-> rem]
  ELSE LET cur  == rem * Base + a[i]
           rest == BDivFrom(a, d, i - 1, cur % d)
       IN  [q |-> Append(rest.q, cur \div d), r |-> rest.r]

BDivSmall(a, d) ==
  LET x == BDivFrom(a, d, Len(a), 0) IN [q |-> BNorm(x.q), r |-> x.r]

\* floor(a / 2^k), and whether any bit was shifted out
BShr(a, k) ==
  LET nl == k \div LimbBits
  IN  IF nl >= Len(a) THEN [q |-> <<>>, sticky |-> a # <<>>]
      ELSE LET x == BDivSmall(SubSeq(a, nl + 1, Len(a)), Pow2(k % LimbBits))
           IN  [q |-> x.q,
                sticky |-> (x.r # 0) \/ (\E i \in 1..nl : a[i] # 0)]

BIsOdd(a) == a # <<>> /\ a[1] % 2 = 1

-----------------------------------------------------------------------------
(* Python floats: [neg, m, s] is the value (-1)^neg * m / 2^s, m < 2^53.    *)

Abs(n) == IF n < 0 THEN -n ELSE n

\* round to nearest, ties to even: q is the quotient with one extra low bit
RoundHalfEven(q, sticky) ==
  IF BIsOdd(q) /\ (sticky \/ BIsOdd(BDivSmall(q, 2).q))
    THEN BAdd(BDivSmall(q, 2).q, <<1>>)
    ELSE BDivSmall(q, 2).q

FRoundBits(neg, x, s) == [neg |-> neg, m |-> RoundHalfEven(x.q, x.sticky), s |-> s]

FRoundDrop(neg, n, t, drop) ==
  IF drop <= 0 THEN [neg |-> neg, m |-> n, s |-> t]
  ELSE FRoundBits(neg, BShr(n, drop - 1), t - drop)

\* the float nearest to n / 2^t (n a natural of any size)
FRoundShift(neg, n, t) == FRoundDrop(neg, n, t, BBitLen(n) - MantissaBits)

\* int -> float, exact for the magnitudes reached here
FFromInt(n) == [neg |-> n < 0, m |-> BFromInt(Abs(n)), s |-> 0]

\* floor(a * 2^k / d) and the remainder
ScaledDiv(a, d, k) == BDivSmall(BShl(BFromInt(a), k), d)

FDivRound(neg, x, d, k) ==
  [neg |-> neg,
   m   |-> IF 2 * x.r > d \/ (2 * x.r = d /\ BIsOdd(x.q))
             THEN BAdd(x.q, <<1>>) ELSE x.q,
   s   |-> k]

\* the quotient at scale k has 53 or 54 bits: 54 means one bit too many
FDivAt(neg, a, d, k, x) ==
  IF BBitLen(x.q) > MantissaBits
    THEN FDivRound(neg, ScaledDiv(a, d, k - 1), d, k - 1)
    ELSE FDivRound(neg, x, d, k)

FDivScale(neg, a, d, k) == FDivAt(neg, a, d, k, ScaledDiv(a, d, k))

\* n / d in Python for ints n and d > 0 (true division, correctly rounded);
\* also the float a decimal literal n/d denotes
FDivInt(n, d) ==
  IF n = 0 THEN FFromInt(0)
  ELSE FDivScale(n < 0, Abs(n), d, MantissaBits + IntBitLen(d) - IntBitLen(Abs(n)))

\* x * y on floats
FMul(x, y) == FRoundShift(x.neg # y.neg, BMul(x.m, y.m), x.s + y.s)

CeilParts(neg, f) ==
  IF neg THEN -BToInt(f.q) ELSE IF f.sticky THEN BToInt(f.q) + 1 ELSE BToInt(f.q)

\* math.ceil(x)
Ceil(x) ==
  IF x.s <= 0
    THEN (IF x.neg THEN -1 ELSE 1) * BToInt(BShl(x.m, -x.s))
    ELSE CeilParts(x.neg, BShr(x.m, x.s))

-----------------------------------------------------------------------------
(* The tables.  A ratio literal such as 4.5 or 0.33 is kept as the integer  *)
(* number of hundredths it is written with; Literal gives the float the     *)
(* interpreter makes of it.  A str is the sequence of its characters, so    *)
(* that the `in` operator of the dispatch is a real substring test.         *)

DecimalScale == 100

Literal(hundredths) == FDivInt(hundredths, DecimalScale)

KSF == <<"1",",","0","0","0"," ","S","F">>
KSF_GFA == <<"1",",","0","0","0"," ","S","F"," ","G","F","A">>
KSF_GLA == <<"1",",","0","0","0"," ","S","F"," ","G","L","A">>
CLASSROOM == <<"c","l","a","s","s","r","o","o","m">>
DWELLING_UNIT == <<"d","w","e","l","l","i","n","g"," ","u","n","i","t">>
EMPLOYEE_CHILDREN == <<"e","m","p","l","o","y","e","e"," ","+"," ","1"," ","p","e","r"," ","1","0"," ","c","h","i","l","d","r","e","n">>
ROOM == <<"r","o","o","m">>
SEAT == <<"s","e","a","t">>

PARKING_RATIOS ==
  "single_family" :> [ratio |-> 200, unit |-> DWELLING_UNIT, notes |-> "2 spaces per DU"] @@
  "multi_family" :> [ratio |-> 150, unit |-> DWELLING_UNIT, notes |-> "1.5 spaces per DU + guest parking"] @@
  "townhouse" :> [ratio |-> 200, unit |-> DWELLING_UNIT, notes |-> "2 spaces per DU"] @@
  "senior_housing" :> [ratio |-> 50, unit |-> DWELLING_UNIT, notes |-> "0.5 spaces per DU"] @@
  "retail" :> [ratio |-> 400, unit |-> KSF_GFA, notes |-> "4 spaces per 1,000 SF"] @@
  "shopping_center" :> [ratio |-> 450, unit |-> KSF_GLA, notes |-> "4.5 spaces per 1,000 SF GLA"] @@
  "restaurant" :> [ratio |-> 1000, unit |-> KSF, notes |-> "10 spaces per 1,000 SF or 1 per 3 seats"] @@
  "fast_food" :> [ratio |-> 1200, unit |-> KSF, notes |-> "12 spaces per 1,000 SF"] @@
  "bank" :> [ratio |-> 400, unit |-> KSF, notes |-> "4 spaces per 1,000 SF + queue for drive-thru"] @@
  "office_general" :> [ratio |-> 300, unit |-> KSF, notes |-> "3 spaces per 1,000 SF"] @@
  "office_medical" :> [ratio |-> 500, unit |-> KSF, notes |-> "5 spaces per 1,000 SF"] @@
  "office_dental" :> [ratio |-> 450, unit |-> KSF, notes |-> "4.5 spaces per 1,000 SF"] @@
  "warehouse" :> [ratio |-> 100, unit |-> KSF, notes |-> "1 space per 1,000 SF"] @@
  "manufacturing" :> [ratio |-> 150, unit |-> KSF, notes |-> "1.5 spaces per 1,000 SF"] @@
  "flex_space" :> [ratio |-> 200, unit |-> KSF, notes |-> "2 spaces per 1,000 SF"] @@
  "church" :> [ratio |-> 33, unit |-> SEAT, notes |-> "1 space per 3 seats"] @@
  "school_elementary" :> [ratio |-> 200, unit |-> CLASSROOM, notes |-> "2 spaces per classroom"] @@
  "school_high" :> [ratio |-> 800, unit |-> CLASSROOM, notes |-> "8 spaces per classroom"] @@
  "daycare" :> [ratio |-> 100, unit |-> EMPLOYEE_CHILDREN, notes |-> "Drop-off lane required"] @@
  "gym_fitness" :> [ratio |-> 500, unit |-> KSF, notes |-> "5 spaces per 1,000 SF"] @@
  "hotel" :> [ratio |-> 100, unit |-> ROOM, notes |-> "1 space per room + employee parking"]

ADA_REQUIREMENTS ==
  << <<25, 1>>, <<50, 2>>, <<75, 3>>, <<100, 4>>, <<150, 5>>,
     <<200, 6>>, <<300, 7>>, <<400, 8>>, <<500, 9>>, <<1000, 2>> >>

-----------------------------------------------------------------------------
(* calculate_ada_spaces and calculate_van_accessible                        *)

\* a scan that tests total_spaces < threshold
RECURSIVE AdaScanStrict(_, _)
AdaScanStrict(total_spaces, i) ==
  IF i > Len(ADA_REQUIREMENTS) THEN <<>>
  ELSE IF total_spaces < ADA_REQUIREMENTS[i][1] THEN <<ADA_REQUIREMENTS[i][2]>>
  ELSE AdaScanStrict(total_spaces, i + 1)

\* for threshold, required in ADA_REQUIREMENTS[i..]: first row with
\* total_spaces <= threshold; <<>> when the loop falls through
RECURSIVE AdaScan(_, _)
AdaScan(total_spaces, i) ==
  IF i > Len(ADA_REQUIREMENTS) THEN <<>>
  ELSE IF total_spaces <= ADA_REQUIREMENTS[i][1] THEN <<ADA_REQUIREMENTS[i][2]>>
  ELSE AdaScan(total_spaces, i + 1)

AdaOver(total_spaces, hit) ==
  IF hit # <<>> THEN hit[1]
  ELSE 20 + Ceil(FDivInt(total_spaces - 1000, 100))

\* an early return that tests total_spaces < 0
calculate_ada_spaces_negative_only(total_spaces) ==
  IF total_spaces < 0 THEN 0 ELSE AdaOver(total_spaces, AdaScan(total_spaces, 1))

calculate_ada_spaces(total_spaces) ==
  IF total_spaces <= 0 THEN 0 ELSE AdaOver(total_spaces, AdaScan(total_spaces, 1))

Max(a, b) == IF a >= b THEN a ELSE b

calculate_van_accessible(ada_spaces) == Max(1, Ceil(FDivInt(ada_spaces, 6)))

-----------------------------------------------------------------------------
(* calculate_parking.  An Optional is <<>> (None) or <<v>>.  A note is a    *)
(* tuple of its kind and the values interpolated into its text.             *)

None == <<>>

\* sub in s, on strs
Contains(sub, s) ==
  \E i \in 1..(Len(s) - Len(sub) + 1) : SubSeq(s, i, i + Len(sub) - 1) = sub

\* a fallback to another row of the table
ResolveUseTypeRetail(use_type) ==
  IF use_type \notin DOMAIN PARKING_RATIOS THEN "retail" ELSE use_type

\* lines 123-125: an unknown use type becomes "office_general"
ResolveUseType(use_type) ==
  IF use_type \notin DOMAIN PARKING_RATIOS THEN "office_general" ELSE use_type

\* line 128: custom_ratio if custom_ratio else ratio_info["ratio"]
EffectiveRatio(custom_ratio, ratio_info) ==
  IF custom_ratio # None /\ custom_ratio[1] # 0
    THEN Literal(custom_ratio[1])
    ELSE Literal(ratio_info.ratio)

Based(required, kind, quantity) ==
  [required |-> required, note |-> <<"Calculation", kind, quantity, required>>]

\* lines 133-151: the base requirement and its note
BaseRequirement(ratio, unit_type, gross_sf, units, seats) ==
  IF Contains(DWELLING_UNIT, unit_type) THEN
    Based(Ceil(FMul(ratio, FFromInt(units))), "units", units)
  ELSE IF Contains(KSF, unit_type) THEN
    Based(Ceil(FMul(ratio, FDivInt(gross_sf, 1000))), "(1,000 SF)", gross_sf)
  ELSE IF Contains(SEAT, unit_type) THEN
    Based(Ceil(FMul(ratio, FFromInt(seats))), "seats", seats)
  ELSE IF Contains(ROOM, unit_type) THEN
    Based(Ceil(FMul(ratio, FFromInt(units))), "rooms", units)
  ELSE IF Contains(CLASSROOM, unit_type) THEN
    Based(Ceil(FMul(ratio, FFromInt(units))), "classrooms", units)
  ELSE
    [required |-> Ceil(FMul(ratio, FDivInt(gross_sf, 1000))),
     note     |-> <<"Default calculation based on SF">>]

\* the dataclass
ParkingRequirement(use_type, gross_sf, units, base_ratio, required_spaces, ada_spaces, total_spaces, notes) ==
  [use_type        |-> use_type,
   gross_sf        |-> gross_sf,
   units           |-> units,
   base_ratio      |-> base_ratio,
   required_spaces |-> required_spaces,
   ada_spaces      |-> ada_spaces,
   total_spaces    |-> total_spaces,
   notes           |-> notes]

\* lines 155-156
AdaNote(ada_spaces) == <<"ADA", ada_spaces, calculate_van_accessible(ada_spaces)>>

\* lines 158-170: total = required, and the result
Finish(use_type, gross_sf, units, ratio, unit_type, required, ada_spaces, notes) ==
  ParkingRequirement(use_type, gross_sf, units, <<ratio, unit_type>>, required,
                     ada_spaces, required, Append(notes, AdaNote(ada_spaces)))

\* lines 153-154
WithAda(use_type, gross_sf, units, ratio, unit_type, base, notes) ==
  Finish(use_type, gross_sf, units, ratio, unit_type, base.required,
         calculate_ada_spaces(base.required), Append(notes, base.note))

\* lines 127-151
WithRatio(use_type, gross_sf, units, seats, ratio_info, ratio, notes) ==
  WithAda(use_type, gross_sf, units, ratio, ratio_info.unit,
          BaseRequirement(ratio, ratio_info.unit, gross_sf, units, seats),
          Append(notes, <<ratio_info.notes>>))

WithUse(use_type, gross_sf, units, seats, custom_ratio, ratio_info, notes) ==
  WithRatio(use_type, gross_sf, units, seats, ratio_info,
            EffectiveRatio(custom_ratio, ratio_info), notes)

calculate_parking(use_type, gross_sf, units, seats, employees, custom_ratio) ==
  WithUse(ResolveUseType(use_type), gross_sf, units, seats, custom_ratio,
          PARKING_RATIOS[ResolveUseType(use_type)],
          IF use_type \notin DOMAIN PARKING_RATIOS
            THEN << <<"Unknown use type", use_type>> >> ELSE <<>>)

-----------------------------------------------------------------------------
(* calculate_mixed_use.  A use is a dict: a function on the keys it has.    *)

Get(d, key, default) == IF key \in DOMAIN d THEN d[key] ELSE default

\* lines 187-192: the call made for one entry of uses
MixedArgs(use) ==
  [use_type     |-> Get(use, "use_type", "office_general"),
   gross_sf     |-> Get(use, "gross_sf", 0),
   units        |-> Get(use, "units", 0),
   seats        |-> Get(use, "seats", 0),
   employees    |-> 0,
   custom_ratio |-> None]

Apply(a) ==
  calculate_parking(a.use_type, a.gross_sf, a.units, a.seats, a.employees,
                    a.custom_ratio)

\* results.insert(0, result)
PrependResult(rs, result) == <<result>> \o rs

\* line 193: results.append(result)
AppendResult(rs, result) == Append(rs, result)

\* the reduction taken for the reduced total
SharedPotentialReduction(total) == Ceil(FMul(FFromInt(total), Literal(15)))

\* line 198: math.ceil(total_required * 0.85)
SharedPotential(total) == Ceil(FMul(FFromInt(total), Literal(85)))

\* lines 200-211
MixedDict(rs, total, shared_potential) ==
  [individual_calculations  |-> rs,
   total_without_sharing    |-> total,
   shared_parking_potential |-> shared_potential,
   potential_reduction      |-> total - shared_potential,
   ada_total                |-> calculate_ada_spaces(shared_potential),
   notes |-> <<"Shared parking analysis based on ULI Shared Parking methodology",
               "Actual reduction requires detailed time-of-day analysis",
               "Local jurisdiction approval required for shared parking credits">>]

MixedReturn(rs, total) == MixedDict(rs, total, SharedPotential(total))

-----------------------------------------------------------------------------
(* The callers.  The module has no state of its own: the state is the log   *)
(* of the calls made so far with what they returned, and the frame of a     *)
(* calculate_mixed_use call in progress.                                    *)

VARIABLES
  pc,              \* "idle", or "loop" / "return" inside calculate_mixed_use
  ada_calls,       \* calculate_ada_spaces calls: [total_spaces, result]
  park_calls,      \* calculate_parking calls: [args, result]
  uses,            \* calculate_mixed_use: its argument
  results,         \* calculate_mixed_use: the local results
  total_required,  \* calculate_mixed_use: the local total_required
  mixed_ret        \* calculate_mixed_use: <<>> or <<the returned dict>>

vars == <<pc, ada_calls, park_calls, uses, results, total_required, mixed_ret>>

\* bounds of the exploration
MaxSpaces == 1210
MaxAdaStep == 1
MaxCalls == 2
MaxUnits == 2
MaxSeats == 1
MaxSfSteps == 1
MaxUses == 3

AdaInputs == -2..MaxSpaces

UseTypes == DOMAIN PARKING_RATIOS \cup {"nonexistent_use"}
GrossSfInputs == {250 * k : k \in -1..MaxSfSteps} \cup {5000, 10000, 300000}
UnitInputs == -1..MaxUnits \cup {50}
SeatInputs == -1..MaxSeats \cup {100}
CustomRatioInputs == {None, <<0>>, <<110>>, <<250>>, <<-100>>}

MixedEntries ==
  { ("use_type" :> "retail") @@ ("gross_sf" :> 10000),
    ("use_type" :> "office_general") @@ ("gross_sf" :> 20000),
    ("use_type" :> "restaurant") @@ ("gross_sf" :> 3000),
    ("use_type" :> "multi_family") @@ ("units" :> 3),
    ("use_type" :> "church") @@ ("seats" :> 100) @@ ("gross_sf" :> 4000),
    ("use_type" :> "nonexistent_use") @@ ("gross_sf" :> 250),
    ("use_type" :> "townhouse") @@ ("units" :> -1),
    ("gross_sf" :> 5000) @@ ("units" :> 2) }

RECURSIVE SeqsUpTo(_, _)
SeqsUpTo(S, n) ==
  IF n = 0 THEN {<<>>}
  ELSE LET shorter == SeqsUpTo(S, n - 1)
       IN  shorter \cup {Append(q, x) : q \in shorter, x \in S}

Init ==
  /\ pc = "idle"
  /\ ada_calls = <<>>
  /\ park_calls = <<>>
  /\ uses = <<>>
  /\ results = <<>>
  /\ total_required = 0
  /\ mixed_ret = <<>>

\* a caller asks for the accessible spaces of a lot, then of a lot up to
\* MaxAdaStep spaces larger
CallAda(n) ==
  /\ pc = "idle"
  /\ Len(ada_calls) < MaxCalls
  /\ ada_calls # <<>> =>
       n - ada_calls[Len(ada_calls)].total_spaces \in 0..MaxAdaStep
  /\ ada_calls' = Append(ada_calls,
                         [total_spaces |-> n, result |-> calculate_ada_spaces(n)])
  /\ UNCHANGED <<pc, park_calls, uses, results, total_required, mixed_ret>>

Log(a) == [args |-> a, result |-> Apply(a)]

\* a caller's first calculate_parking call
Calculate(a) ==
  /\ pc = "idle"
  /\ park_calls = <<>>
  /\ park_calls' = <<Log(a)>>
  /\ UNCHANGED <<pc, ada_calls, uses, results, total_required, mixed_ret>>

\* the caller calls again with one of the quantities changed
Recalculate(field, value) ==
  /\ pc = "idle"
  /\ park_calls # <<>>
  /\ Len(park_calls) < MaxCalls
  /\ LET last == park_calls[Len(park_calls)].args
     IN  /\ last[field] # value
         /\ park_calls' = Append(park_calls, Log([last EXCEPT ![field] = value]))
  /\ UNCHANGED <<pc, ada_calls, uses, results, total_required, mixed_ret>>

ParkingArgs ==
  [use_type : UseTypes, gross_sf : GrossSfInputs, units : UnitInputs,
   seats : SeatInputs, employees : {0}, custom_ratio : CustomRatioInputs]

\* calculate_mixed_use(us): lines 183-184
MixedCall(us) ==
  /\ pc = "idle"
  /\ mixed_ret = <<>>
  /\ uses' = us
  /\ results' = <<>>
  /\ total_required' = 0
  /\ pc' = "loop"
  /\ UNCHANGED <<ada_calls, park_calls, mixed_ret>>

\* the body of `for use in uses`: lines 187-194
MixedBody(call) ==
  /\ park_calls' = Append(park_calls, call)
  /\ results' = AppendResult(results, call.result)
  /\ total_required' = total_required + call.result.required_spaces

\* one iteration of the loop
MixedLoop ==
  /\ pc = "loop"
  /\ Len(results) < Len(uses)
  /\ MixedBody(Log(MixedArgs(uses[Len(results) + 1])))
  /\ UNCHANGED <<pc, ada_calls, uses, mixed_ret>>

\* the loop is exhausted: lines 198-211
MixedFinish ==
  /\ pc = "loop"
  /\ Len(results) >= Len(uses)
  /\ mixed_ret' = <<MixedReturn(results, total_required)>>
  /\ pc' = "idle"
  /\ UNCHANGED <<ada_calls, park_calls, uses, results, total_required>>

NextAda ==
  /\ Len(ada_calls) < MaxCalls
  /\ \E n \in AdaInputs : CallAda(n)

FirstCall ==
  /\ park_calls = <<>>
  /\ \E a \in ParkingArgs : Calculate(a)

NextCall ==
  /\ park_calls # <<>>
  /\ Len(park_calls) < MaxCalls
  /\ \/ \E v \in GrossSfInputs : Recalculate("gross_sf", v)
     \/ \E v \in UnitInputs : Recalculate("units", v)
     \/ \E v \in SeatInputs : Recalculate("seats", v)

MixedEnter ==
  /\ pc = "idle"
  /\ mixed_ret = <<>>
  /\ \E us \in SeqsUpTo(MixedEntries, MaxUses) : MixedCall(us)

NextCalc == FirstCall

NextRecalc == FirstCall \/ NextCall

NextMixed == MixedEnter \/ MixedLoop \/ MixedFinish

SpecAda == Init /\ [][NextAda]_vars

SpecCalc == Init /\ [][NextCalc]_vars

SpecRecalc == Init /\ [][NextRecalc]_vars

SpecMixed == Init /\ [][NextMixed]_vars

-----------------------------------------------------------------------------
(* Reference definitions the properties are stated with: exact integer      *)
(* arithmetic, the step function written out tier by tier, and the unit     *)
(* basis of each use type as a tag.                                         *)

\* n = ceiling(num / den), den > 0
IsCeiling(n, num, den) == n * den >= num /\ (n - 1) * den < num

RefAdaStep(n) ==
  IF n <= 0 THEN 0
  ELSE IF n <= 25 THEN 1
  ELSE IF n <= 50 THEN 2
  ELSE IF n <= 75 THEN 3
  ELSE IF n <= 100 THEN 4
  ELSE IF n <= 150 THEN 5
  ELSE IF n <= 200 THEN 6
  ELSE IF n <= 300 THEN 7
  ELSE IF n <= 400 THEN 8
  ELSE IF n <= 500 THEN 9
  ELSE IF n <= 1000 THEN 2
  ELSE 20 + (n - 1000 + 99) \div 100

UnitCountBasis ==
  {"single_family", "multi_family", "townhouse", "senior_housing",
   "school_elementary", "school_high", "hotel"}

SeatBasis == {"church"}

\* the ratio in hundredths: custom_ratio if supplied and non-zero
RefRatio(a) ==
  IF a.custom_ratio # None /\ a.custom_ratio[1] # 0
    THEN a.custom_ratio[1] ELSE PARKING_RATIOS[a.use_type].ratio

\* required = ceiling(r * q) for the call a
RefRequired(a, required) ==
  IF a.use_type \in UnitCountBasis THEN IsCeiling(required, RefRatio(a) * a.units, 100)
  ELSE IF a.use_type \in SeatBasis THEN IsCeiling(required, RefRatio(a) * a.seats, 100)
  ELSE IsCeiling(required, RefRatio(a) * a.gross_sf, 100000)

HasWarning(notes) == \E i \in DOMAIN notes : notes[i][1] = "Unknown use type"

RECURSIVE SumRequired(_)
SumRequired(rs) ==
  IF rs = <<>> THEN 0 ELSE rs[1].required_spaces + SumRequired(Tail(rs))

Known(a) == a.use_type \in DOMAIN PARKING_RATIOS

-----------------------------------------------------------------------------
(* Properties *)

\* C1: calculate_ada_spaces is monotone over the non-negative integers: of two
\* calls with 0 <= a <= b, the second returns at least what the first returns.
C1_AdaMonotone ==
  \A i, j \in DOMAIN ada_calls :
    (0 <= ada_calls[i].total_spaces
       /\ ada_calls[i].total_spaces <= ada_calls[j].total_spaces)
      => ada_calls[i].result <= ada_calls[j].result

C3_RequiredIsCeiling ==
  \A i \in DOMAIN park_calls :
    Known(park_calls[i].args) =>
      /\ RefRequired(park_calls[i].args, park_calls[i].result.required_spaces)
      /\ (park_calls[i].args.use_type = "multi_family"
            /\ park_calls[i].args.units = 50
            /\ park_calls[i].args.custom_ratio = None)
           => park_calls[i].result.required_spaces = 75
      /\ (park_calls[i].args.use_type = "retail"
            /\ park_calls[i].args.gross_sf = 10000
            /\ park_calls[i].args.custom_ratio = None)
           => park_calls[i].result.required_spaces = 40

\* C4: a use type that is no key of the table gives the required, ADA and
\* total spaces of "office_general" with the same quantities and ratio, and a
\* substitution warning in the notes (15 spaces for 5000 sf); a use type of
\* the table gives no warning.
C4_UnknownUseFallsBack ==
  \A i \in DOMAIN park_calls :
    IF Known(park_calls[i].args)
      THEN ~HasWarning(park_calls[i].result.notes)
      ELSE /\ HasWarning(park_calls[i].result.notes)
           /\ park_calls[i].result.required_spaces
                = Apply([park_calls[i].args EXCEPT !.use_type = "office_general"]).required_spaces
           /\ park_calls[i].result.ada_spaces
                = Apply([park_calls[i].args EXCEPT !.use_type = "office_general"]).ada_spaces
           /\ park_calls[i].result.total_spaces
                = Apply([park_calls[i].args EXCEPT !.use_type = "office_general"]).total_spaces
           /\ (park_calls[i].args.gross_sf = 5000 /\ park_calls[i].args.custom_ratio = None)
                => park_calls[i].result.required_spaces = 15

C4_Witness ==
  /\ Len(park_calls) = 1
  /\ park_calls[1].args.use_type = "nonexistent_use"
  /\ park_calls[1].args.gross_sf = 5000
  /\ park_calls[1].args.custom_ratio = None
  /\ park_calls[1].result.required_spaces = 15
  /\ HasWarning(park_calls[1].result.notes)

\* C5: calculate_mixed_use returns the sum of the entries' required spaces,
\* the ceiling of 0.85 times that sum, their difference, and the ADA step of
\* the reduced total; all 0 for no uses, and 130, 111, 19, 5 for retail
\* 10000 sf, office_general 20000 sf, restaurant 3000 sf.
C5_MixedTotals ==
  mixed_ret # <<>> =>
    /\ mixed_ret[1].total_without_sharing
         = SumRequired(mixed_ret[1].individual_calculations)
    /\ IsCeiling(mixed_ret[1].shared_parking_potential,
                 85 * mixed_ret[1].total_without_sharing, 100)
    /\ mixed_ret[1].potential_reduction
         = mixed_ret[1].total_without_sharing - mixed_ret[1].shared_parking_potential
    /\ mixed_ret[1].ada_total = RefAdaStep(mixed_ret[1].shared_parking_potential)
    /\ uses = <<>> =>
         /\ mixed_ret[1].total_without_sharing = 0
         /\ mixed_ret[1].shared_parking_potential = 0
         /\ mixed_ret[1].potential_reduction = 0
         /\ mixed_ret[1].ada_total = 0
    /\ uses = << ("use_type" :> "retail") @@ ("gross_sf" :> 10000),
                 ("use_type" :> "office_general") @@ ("gross_sf" :> 20000),
                 ("use_type" :> "restaurant") @@ ("gross_sf" :> 3000) >> =>
         /\ mixed_ret[1].total_without_sharing = 130
         /\ mixed_ret[1].shared_parking_potential = 111
         /\ mixed_ret[1].potential_reduction = 19
         /\ mixed_ret[1].ada_total = 5

C5_Witness ==
  /\ mixed_ret # <<>>
  /\ Len(uses) = 3
  /\ mixed_ret[1].total_without_sharing = 130
  /\ mixed_ret[1].shared_parking_potential = 111
  /\ mixed_ret[1].ada_total = 5

\* C6: calculate_mixed_use calls calculate_parking exactly once per entry, in
\* input order: the returned sequence is as long as uses and its i-th element
\* is the result of calculate_parking for the i-th entry, with no ratio
\* override.
C6_OncePerEntryInOrder ==
  /\ Len(park_calls) = Len(results)
  /\ Len(results) <= Len(uses)
  /\ mixed_ret # <<>> =>
       /\ Len(mixed_ret[1].individual_calculations) = Len(uses)
       /\ Len(park_calls) = Len(uses)
       /\ \A i \in DOMAIN uses :
            /\ park_calls[i].args.use_type = Get(uses[i], "use_type", "office_general")
            /\ park_calls[i].args.gross_sf = Get(uses[i], "gross_sf", 0)
            /\ park_calls[i].args.units = Get(uses[i], "units", 0)
            /\ park_calls[i].args.seats = Get(uses[i], "seats", 0)
            /\ park_calls[i].args.custom_ratio = None
            /\ mixed_ret[1].individual_calculations[i] = park_calls[i].result
            /\ mixed_ret[1].individual_calculations[i] = Apply(park_calls[i].args)

C6_Witness ==
  /\ mixed_ret # <<>>
  /\ Len(uses) = 3
  /\ uses[1] # uses[2]
  /\ mixed_ret[1].individual_calculations[1].use_type = "restaurant"
  /\ mixed_ret[1].individual_calculations[3].use_type = "multi_family"

\* C7: for a fixed use type and ratio, a call with one quantity increased and
\* the others unchanged never returns fewer required spaces.
C7_RequiredMonotone ==
  \A i, j \in DOMAIN park_calls :
    (/\ park_calls[i].args.use_type = park_calls[j].args.use_type
     /\ park_calls[i].args.custom_ratio = park_calls[j].args.custom_ratio
     /\ park_calls[i].args.gross_sf <= park_calls[j].args.gross_sf
     /\ park_calls[i].args.units <= park_calls[j].args.units
     /\ park_calls[i].args.seats <= park_calls[j].args.seats)
      => park_calls[i].result.required_spaces <= park_calls[j].result.required_spaces

\* C8: every result of calculate_parking has non-negative required, ADA and
\* total spaces.
C8_NonNegative ==
  \A i \in DOMAIN park_calls :
    /\ park_calls[i].result.required_spaces >= 0
    /\ park_calls[i].result.ada_spaces >= 0
    /\ park_calls[i].result.total_spaces >= 0

\* C9: in every result of calculate_parking, ada_spaces >= 1 when
\* required_spaces >= 1, and ada_spaces = 0 when required_spaces = 0.
C9_AdaAtLeastOne ==
  \A i \in DOMAIN park_calls :
    /\ park_calls[i].result.required_spaces >= 1 => park_calls[i].result.ada_spaces >= 1
    /\ park_calls[i].result.required_spaces = 0 => park_calls[i].result.ada_spaces = 0

C9_Witness ==
  /\ Len(park_calls) = 1
  /\ park_calls[1].result.required_spaces = 750
  /\ park_calls[1].result.ada_spaces = 2

\* C10: in every result of calculate_parking, total_spaces = required_spaces
\* and the accessible spaces are among them: ada_spaces <= required_spaces.
C10_AdaIncluded ==
  \A i \in DOMAIN park_calls :
    /\ park_calls[i].result.total_spaces = park_calls[i].result.required_spaces
    /\ park_calls[i].result.ada_spaces <= park_calls[i].result.required_spaces
====
